---- MODULE Spec2Model ----
(***************************************************************************)
(* Leave / loan approval workflow of the LSAFHR backend.                   *)
(*                                                                         *)
(* The repository holds several iterations of one Express + MySQL server.  *)
(* One of them runs at a time against the shared hr_management database:   *)
(*   v11   src/server.js 170-532        (admin decisions, e-mail hub)      *)
(*   v9_5  src/unnamed/part_000 1-440   (admin decisions)                  *)
(*   v7_3  src/server.js 534-785        (submissions with e-mail)          *)
(*   legacy src/unnamed/part_001         (PUT /api/leaves/:id)              *)
(* and, for the employees table and the payroll posts:                     *)
(*   v1     src/server.js 1-168          (schema set-up with migration)     *)
(*   part0b src/unnamed/part_000 441-625 (bulk wipe, salary reset)          *)
(*   part0c src/unnamed/part_000 626-845                                    *)
(*   part0d src/unnamed/part_000 846-1067 (bulk wipe, salary reset)         *)
(*   part2  src/unnamed/part_002         (bulk wipe, salary reset)          *)
(*                                                                         *)
(* A step of the model is one statement executed by the store together     *)
(* with the callback Node runs on its completion (callbacks run to         *)
(* completion on one thread; the statements they issue are executed by the *)
(* store in later steps).  A notification is a recipient lookup issued to  *)
(* the pool and, from its callback, an e-mail handed to the transporter.   *)
(***************************************************************************)
EXTENDS Integers, Sequences, FiniteSets, Bags, TLC

\* ---------------------------------------------------------------- bounds
MaxRequests == 2      \* leave + loan rows ever inserted
MaxCalls == 2         \* PUT /api/admin/leaves/:id calls ever received
MaxFaults == 1        \* failed store statements, failed sends, process crashes
MaxEdits == 1         \* administrative writes to the employees table
MaxDays == 1          \* largest `days` a client sends
MaxAmount == 1        \* largest `amount` a client sends
MaxMails == 2         \* recipient lookups and e-mails a loan decision may add to
MaxPosts == 3         \* rows of payroll_posts
NotifyCalls == 1      \* leave decisions followed through their notification

\* ------------------------------------------------------ program constants
InitAnnual == 14
InitCasual == 10

\* ------------------------------------------------------------ input sets
Versions == {"v11", "v9_5", "v7_3", "legacy"}
EmpIds == {"E1", "E2"}
LeaveTypes == {"Annual Leave", "Casual"}
DaysInputs == (-1)..MaxDays
AmountInputs == (-1)..MaxAmount
StatusInputs == {"Approved", "Rejected", "Pending", "Cancelled"}
ClientStatus == {"none", "Approved"}
EditBalances == {5}
Iterations == Versions \cup {"v1", "part0b", "part0c", "part0d", "part2"}
Months == {"2024-01", "2024-02"}

NoTime == 0
NoLeave == [employee_id |-> "", leave_type |-> "", days |-> 0, status |-> ""]

VARIABLES
    version,     \* the iteration of the server that is deployed
    employees,   \* employees table: id -> row (column -> value)
    leaves,      \* leaves table, row id = index (AUTO_INCREMENT)
    loans,       \* loans table, row id = index (AUTO_INCREMENT)
    calls,       \* PUT /api/admin/leaves/:id handlers, in order of arrival
    pending,     \* bag of balance updates issued to the pool, not yet executed
    response,    \* last response written by a single-statement handler
    faults,      \* failed statements and crashes so far
    edits,       \* administrative employee writes so far
    lookups,     \* bag of recipient lookups issued to the pool, not yet executed
    mails,       \* e-mails handed to the transporter, in order of dispatch
    posted,      \* payroll_posts table: month_year of its rows, in order of insertion
    schema       \* employees table: whether it exists, whether the running
                 \* iteration has set it up, and the defaults of its balance columns

vars == <<version, employees, leaves, loans, calls, pending, response, faults, edits,
          lookups, mails, posted, schema>>

\* ------------------------------------------------------------- the schema
\* status VARCHAR(20) DEFAULT 'Pending'
DefaultStatus == "Pending"

\* The columns of the employees table next to its key: the profile, the two
\* leave balances, the opening balance of the loan account, and the ten
\* columns of the monthly payroll ledger.
ProfileColumns == {"name", "role", "email"}
BalanceColumns == {"leave_annual", "leave_casual"}
LedgerColumns ==
    {"basic_salary", "invigilation", "t_payment", "increment", "eidi", "tax",
     "loan_deduction", "insurance", "others_deduction", "extra_leaves_deduction"}
EmployeeColumns ==
    ProfileColumns \cup BalanceColumns \cup LedgerColumns \cup {"loan_opening_balance"}

\* role VARCHAR(50) DEFAULT 'employee'
DefaultRole == "employee"

\* leave_annual INT DEFAULT 14, leave_casual INT DEFAULT 10
BalanceDefaults == [c \in BalanceColumns |-> IF c = "leave_annual" THEN InitAnnual ELSE InitCasual]

\* The employees table as every iteration declares it.
DeclaredSchema == [table |-> TRUE, synced |-> TRUE, defaults |-> BalanceDefaults]

\* An employee on the payroll: a row with a salary in every ledger column
\* and an opening loan balance.
SeedAmount == 1
SeedRow(id) ==
    [c \in EmployeeColumns |->
        CASE c = "name" -> id
          [] c = "role" -> DefaultRole
          [] c = "email" -> id
          [] c \in BalanceColumns -> BalanceDefaults[c]
          [] OTHER -> SeedAmount]

\* applied_at TIMESTAMP DEFAULT CURRENT_TIMESTAMP: the store's clock, which
\* has advanced by one tick per row inserted so far
CurrentTimestamp == Len(leaves) + Len(loans) + 1

\* ----------------------------------------------------------- notifications
NoCall == 0
NoRecipient == ""
AdminAddress == "admin"

\* A recipient lookup a handler issues to the pool before it notifies:
\*   SELECT name, email FROM employees WHERE id = ?                (by employee)
\*   SELECT e.email, ... FROM loans l JOIN employees e ... WHERE l.id = ?  (by loan)
\* with what the callback's closure holds: the handler it belongs to and
\* the decision it reports.
Lookup(kind, employee_id, loan_id, call, status) ==
    [kind |-> kind, employee_id |-> employee_id, loan_id |-> loan_id,
     call |-> call, status |-> status]

\* The employee whose row the lookup returns when the store executes it, or
\* NoRecipient when it returns no row.
Recipient(l) ==
    IF l.kind = "loan_decision"
    THEN IF l.loan_id \in DOMAIN loans /\ loans[l.loan_id].employee_id \in DOMAIN employees
         THEN loans[l.loan_id].employee_id
         ELSE NoRecipient
    ELSE IF l.employee_id \in DOMAIN employees THEN l.employee_id ELSE NoRecipient

\* transporter.sendMail({to, subject, html}), just handed over
Mail(kind, to, call, status) ==
    [kind |-> kind, to |-> to, call |-> call, status |-> status, state |-> "sending"]

\* Only v7_3 acknowledges a submission to the employee, and it issues the
\* lookup whether or not the INSERT succeeded.
AcknowledgesSubmission == version = "v7_3"

\* v9_5 tells the administrator about a new loan request, after a
\* successful INSERT.
NotifiesAdminOfLoan == version = "v9_5"

\* v11 reports a leave decision to the employee; v9_5 sends nothing.
NotifiesLeaveDecision == version = "v11"

\* ------------------------------------------------------------ submissions
\* An INSERT that takes the whole body (INSERT INTO leaves SET req.body)
\* would store the status a client sends.
LeaveRowClientStatus(body) ==
    [employee_id |-> body.employeeId,
     leave_type  |-> body.type,
     days        |-> body.days,
     status      |-> IF body.status = "none" THEN DefaultStatus ELSE body.status,
     applied_at  |-> CurrentTimestamp]

\* The row INSERT INTO leaves writes for a request body.  Every iteration
\* names the columns it takes from the body; status is the literal 'Pending'
\* or the column default, applied_at the column default.
LeaveRow(body) ==
    [employee_id |-> body.employeeId,
     leave_type  |-> body.type,
     days        |-> body.days,
     status      |-> DefaultStatus,
     applied_at  |-> CurrentTimestamp]

LeaveBodies ==
    [employeeId : EmpIds, type : LeaveTypes, days : DaysInputs, status : ClientStatus]

\* POST /api/leaves.  v7_3 ignores the error of the INSERT, issues the
\* recipient lookup and answers success; the others answer 500.
SubmitLeave(body, ok) ==
    /\ Len(leaves) + Len(loans) < MaxRequests
    /\ ok \/ faults < MaxFaults
    /\ leaves' = IF ok THEN Append(leaves, LeaveRow(body)) ELSE leaves
    /\ faults' = IF ok THEN faults ELSE faults + 1
    /\ response' = [code |-> IF ok \/ version = "v7_3" THEN 200 ELSE 500]
    /\ lookups' = IF AcknowledgesSubmission
                  THEN lookups (+) SetToBag({Lookup("leave_submit", body.employeeId, 0, NoCall, "")})
                  ELSE lookups
    /\ UNCHANGED <<posted, schema, version, employees, loans, calls, pending, edits, mails>>

\* The row INSERT INTO loans writes for a request body.
LoanRow(body) ==
    [employee_id |-> body.employeeId,
     amount      |-> body.amount,
     status      |-> DefaultStatus,
     applied_at  |-> CurrentTimestamp]

LoanBodies == [employeeId : EmpIds, amount : AmountInputs, status : ClientStatus]

\* v11 only: if (!empId || !amount) return 400.  The ids of EmpIds are
\* non-empty strings, so the test is on amount, and !amount holds of 0 only.
LoanRejected(body) == version = "v11" /\ body.amount = 0

\* POST /api/loans
SubmitLoan(body, ok) ==
    /\ Len(leaves) + Len(loans) < MaxRequests
    /\ ok \/ (faults < MaxFaults /\ ~LoanRejected(body))
    /\ loans' = IF ok /\ ~LoanRejected(body) THEN Append(loans, LoanRow(body)) ELSE loans
    /\ faults' = IF ok THEN faults ELSE faults + 1
    /\ response' = [code |-> IF LoanRejected(body) THEN 400
                             ELSE IF ok \/ version = "v7_3" THEN 200 ELSE 500]
    /\ lookups' = IF AcknowledgesSubmission
                  THEN lookups (+) SetToBag({Lookup("loan_submit", body.employeeId, 0, NoCall, "")})
                  ELSE lookups
    /\ mails' = IF NotifiesAdminOfLoan /\ ok
                THEN Append(mails, Mail("loan_submit", AdminAddress, NoCall, ""))
                ELSE mails
    /\ UNCHANGED <<posted, schema, version, employees, leaves, calls, pending, edits>>

\* -------------------------------------------------------- leave decisions
HasAdminDecisions == version \in {"v11", "v9_5"}

\* A column chosen by naming the casual type, every other type counted as
\* annual leave.
BalanceColumnCasualOnly(leave_type) ==
    IF leave_type = "Casual" THEN "leave_casual" ELSE "leave_annual"

\* The two branches of the conditional exchanged.
BalanceColumnSwapped(leave_type) ==
    IF leave_type = "Annual Leave" THEN "leave_casual" ELSE "leave_annual"

\* const col = (leave.leave_type === 'Annual Leave') ? 'leave_annual' : 'leave_casual'
BalanceColumn(leave_type) ==
    IF leave_type = "Annual Leave" THEN "leave_annual" ELSE "leave_casual"

\* A deduction on every decision, not only on approval.
DeductsOnAnyDecision(status) == status \in {"Approved", "Rejected"}

\* if (status === 'Approved')
DeductsOn(status) == status = "Approved"

\* The statement UPDATE employees SET col = col - ? WHERE id = ? with its
\* parameters [leave.days, leave.employee_id]
Deduction(leave) ==
    [column |-> BalanceColumn(leave.leave_type),
     days |-> leave.days,
     employee_id |-> leave.employee_id]

\* A decrement with a floor check (... WHERE col >= ?): an approval the
\* balance does not cover deducts nothing.
ApplyDeductionGuarded(emps, s) ==
    IF s.employee_id \in DOMAIN emps /\ emps[s.employee_id][s.column] >= s.days
    THEN [emps EXCEPT ![s.employee_id][s.column] = @ - s.days]
    ELSE emps

\* A caller-side read-modify-write: the value written is computed from the
\* balance the caller read when the request arrived.
ApplyDeductionStale(emps, s) ==
    IF s.employee_id \in DOMAIN emps
    THEN [emps EXCEPT ![s.employee_id][s.column] =
            (IF s.column = "leave_annual" THEN InitAnnual ELSE InitCasual) - s.days]
    ELSE emps

\* What the store does when it executes that statement: the subtraction is
\* evaluated on the row's current value; no row, no effect.
ApplyDeduction(emps, s) ==
    IF s.employee_id \in DOMAIN emps
    THEN [emps EXCEPT ![s.employee_id][s.column] = @ - s.days]
    ELSE emps

\* UPDATE leaves SET status = ? WHERE id = ?
SetStatus(rows, id, status) ==
    IF id \in DOMAIN rows THEN [rows EXCEPT ![id].status = status] ELSE rows

InFlight(c) == c.pc = "update"

\* PUT /api/admin/leaves/:id, first statement: SELECT * FROM leaves WHERE
\* id = ?, and its callback: 404 on error or no row, otherwise keep the row
\* and issue the status update.
DecideLeaveSelect(id, status, ok) ==
    /\ HasAdminDecisions
    /\ Len(calls) < MaxCalls
    /\ ok \/ faults < MaxFaults
    /\ faults' = IF ok THEN faults ELSE faults + 1
    /\ calls' = Append(calls,
          IF ok /\ id \in DOMAIN leaves
          THEN [pc |-> "update", id |-> id, status |-> status,
                leave |-> [employee_id |-> leaves[id].employee_id,
                           leave_type |-> leaves[id].leave_type,
                           days |-> leaves[id].days,
                           status |-> leaves[id].status],
                code |-> 0]
          ELSE [pc |-> "done", id |-> id, status |-> status,
                leave |-> NoLeave, code |-> 404])
    /\ UNCHANGED <<posted, schema, version, employees, leaves, loans, pending, response, edits,
                   lookups, mails>>

\* v11 answers 500 and stops when the status update failed; v9_5 does not
\* look at the error.
StopsOnUpdateError == version = "v11"

\* A handler that awaits the notification: after the status update it
\* waits for the transporter before it answers.
DecideLeaveUpdateAwaitsMail(h, ok) ==
    /\ h \in DOMAIN calls
    /\ calls[h].pc = "update"
    /\ ok \/ faults < MaxFaults
    /\ faults' = IF ok THEN faults ELSE faults + 1
    /\ leaves' = IF ok THEN SetStatus(leaves, calls[h].id, calls[h].status) ELSE leaves
    /\ calls' = [calls EXCEPT ![h].pc = "mail"]
    /\ pending' = IF ok /\ DeductsOn(calls[h].status)
                  THEN pending (+) SetToBag({Deduction(calls[h].leave)})
                  ELSE pending
    /\ lookups' = IF ok
                  THEN lookups (+) SetToBag({Lookup("leave_decision",
                           calls[h].leave.employee_id, 0, h, calls[h].status)})
                  ELSE lookups
    /\ UNCHANGED <<posted, schema, version, employees, loans, response, edits, mails>>

\* PUT /api/admin/leaves/:id, second statement: UPDATE leaves SET status,
\* and its callback: issue the balance update when the decision is
\* 'Approved' (its result is not awaited), issue the recipient lookup (v11),
\* answer success.
DecideLeaveUpdate(h, ok) ==
    /\ h \in DOMAIN calls
    /\ calls[h].pc = "update"
    /\ ok \/ faults < MaxFaults
    /\ faults' = IF ok THEN faults ELSE faults + 1
    /\ leaves' = IF ok THEN SetStatus(leaves, calls[h].id, calls[h].status) ELSE leaves
    /\ IF ~ok /\ StopsOnUpdateError
       THEN /\ calls' = [calls EXCEPT ![h].pc = "done", ![h].code = 500]
            /\ pending' = pending
            /\ lookups' = lookups
       ELSE /\ calls' = [calls EXCEPT ![h].pc = "done", ![h].code = 200]
            /\ pending' = IF DeductsOn(calls[h].status)
                          THEN pending (+) SetToBag({Deduction(calls[h].leave)})
                          ELSE pending
            /\ lookups' = IF NotifiesLeaveDecision
                          THEN lookups (+) SetToBag({Lookup("leave_decision",
                                   calls[h].leave.employee_id, 0, h, calls[h].status)})
                          ELSE lookups
    /\ UNCHANGED <<posted, schema, version, employees, loans, response, edits, mails>>

\* The store executes a balance update the pool holds.  Nothing listens for
\* its result: a failure is lost.
ExecDeduction(s, ok) ==
    /\ BagIn(s, pending)
    /\ ok \/ faults < MaxFaults
    /\ faults' = IF ok THEN faults ELSE faults + 1
    /\ pending' = pending (-) SetToBag({s})
    /\ employees' = IF ok THEN ApplyDeduction(employees, s) ELSE employees
    /\ UNCHANGED <<posted, schema, version, leaves, loans, calls, response, edits, lookups, mails>>

\* What becomes of the e-mails the transporter holds when the process dies.
DropSending(ms) ==
    [i \in DOMAIN ms |->
        IF ms[i].state = "sending" THEN [ms[i] EXCEPT !.state = "lost"] ELSE ms[i]]

\* The server process dies: handlers in flight never answer, statements the
\* pool has not sent and e-mails the transporter has not sent are gone; what
\* the store has executed stays.
Crash ==
    /\ faults < MaxFaults
    /\ \/ pending # EmptyBag
       \/ lookups # EmptyBag
       \/ \E h \in DOMAIN calls : InFlight(calls[h])
    /\ faults' = faults + 1
    /\ calls' = [h \in DOMAIN calls |->
                    IF InFlight(calls[h]) THEN [calls[h] EXCEPT !.pc = "lost"] ELSE calls[h]]
    /\ pending' = EmptyBag
    /\ lookups' = EmptyBag
    /\ mails' = DropSending(mails)
    /\ UNCHANGED <<posted, schema, version, employees, leaves, loans, response, edits>>

\* PUT /api/leaves/:id of the legacy iteration: one unconditional UPDATE.
PutLeaveStatus(id, status, ok) ==
    /\ version = "legacy"
    /\ ok \/ faults < MaxFaults
    /\ faults' = IF ok THEN faults ELSE faults + 1
    /\ leaves' = IF ok THEN SetStatus(leaves, id, status) ELSE leaves
    /\ response' = [code |-> IF ok THEN 200 ELSE 500]
    /\ UNCHANGED <<posted, schema, version, employees, loans, calls, pending, edits, lookups, mails>>

\* --------------------------------------------------------- loan decisions
\* PUT /api/admin/loans/:id: UPDATE loans SET status = ? WHERE id = ?, and
\* its callback: 500 on error, otherwise issue the recipient lookup and
\* answer success.
DecideLoan(id, status, ok) ==
    /\ HasAdminDecisions
    /\ id \in 1..(Len(loans) + 1)
    /\ BagCardinality(lookups) + Len(mails) < MaxMails
    /\ ok \/ faults < MaxFaults
    /\ faults' = IF ok THEN faults ELSE faults + 1
    /\ loans' = IF ok THEN SetStatus(loans, id, status) ELSE loans
    /\ response' = [code |-> IF ok THEN 200 ELSE 500]
    /\ lookups' = IF ok
                  THEN lookups (+) SetToBag({Lookup("loan_decision", "", id, NoCall, status)})
                  ELSE lookups
    /\ UNCHANGED <<posted, schema, version, employees, leaves, calls, pending, edits, mails>>

\* ------------------------------------------------------ notification steps
\* The store executes a recipient lookup, and its callback: hand the e-mail
\* to the transporter when there was no error and a row came back.
ExecLookup(l, ok) ==
    /\ BagIn(l, lookups)
    /\ ok \/ faults < MaxFaults
    /\ faults' = IF ok THEN faults ELSE faults + 1
    /\ lookups' = lookups (-) SetToBag({l})
    /\ mails' = IF ok /\ Recipient(l) # NoRecipient
                THEN Append(mails, Mail(l.kind, Recipient(l), l.call, l.status))
                ELSE mails
    /\ UNCHANGED <<posted, schema, version, employees, leaves, loans, calls, pending, response, edits>>

\* A failure of the transporter written back to the caller.
MailDoneSurfaced(i, ok) ==
    /\ i \in DOMAIN mails
    /\ mails[i].state = "sending"
    /\ ok \/ faults < MaxFaults
    /\ faults' = IF ok THEN faults ELSE faults + 1
    /\ mails' = [mails EXCEPT ![i].state = IF ok THEN "delivered" ELSE "failed"]
    /\ response' = IF ok THEN response ELSE [code |-> 500]
    /\ calls' = IF ok \/ mails[i].call = NoCall
                THEN calls
                ELSE [calls EXCEPT ![mails[i].call].code = 500]
    /\ UNCHANGED <<posted, schema, version, employees, leaves, loans, pending, edits, lookups>>

\* The transporter finishes with an e-mail.  A failure is caught and logged
\* (dispatchEmail's catch, the sendMail callbacks of v9_5); nothing reads
\* the outcome.
MailDone(i, ok) ==
    /\ i \in DOMAIN mails
    /\ mails[i].state = "sending"
    /\ ok \/ faults < MaxFaults
    /\ faults' = IF ok THEN faults ELSE faults + 1
    /\ mails' = [mails EXCEPT ![i].state = IF ok THEN "delivered" ELSE "failed"]
    /\ UNCHANGED <<posted, schema, version, employees, leaves, loans, calls, pending, response, edits,
                   lookups>>

\* v7_3 calls transporter.sendMail without a callback and drops the promise
\* it returns: a failed send is an unhandled rejection, on which the Node
\* runtime may end the process.
UnhandledRejection(i) ==
    /\ version = "v7_3"
    /\ i \in DOMAIN mails
    /\ mails[i].state = "sending"
    /\ faults < MaxFaults
    /\ faults' = faults + 1
    /\ mails' = DropSending([mails EXCEPT ![i].state = "failed"])
    /\ lookups' = EmptyBag
    /\ pending' = EmptyBag
    /\ UNCHANGED <<posted, schema, version, employees, leaves, loans, calls, response, edits>>

\* ------------------------------------------------ administrative writes
NoId == ""
NewName == "renamed"

\* The body of an employee write: the id field it may carry, and which of
\* the columns it names (value is the number it sends for each balance and
\* ledger column it names).  Every body names some column (a password, say)
\* besides those.
EmployeeBodies(ids, values, others) ==
    [id : ids, has_annual : BOOLEAN, has_casual : BOOLEAN, value : values,
     has_ledger : others, has_name : others]

EditBodies == EmployeeBodies({NoId}, EditBalances, {FALSE})

\* The columns an employee update writes.
EditRow(row, body) ==
    [c \in DOMAIN row |->
        CASE c = "leave_annual" /\ body.has_annual -> body.value
          [] c = "leave_casual" /\ body.has_casual -> body.value
          [] c \in LedgerColumns /\ body.has_ledger -> body.value
          [] c = "name" /\ body.has_name -> NewName
          [] OTHER -> row[c]]

\* part0d hands req.body to UPDATE employees SET ? as it is; the others
\* take the id out of the body (delete data.id) or copy the columns of a
\* fixed list that does not hold id.
KeepsId == version # "part0d"

\* if (results.affectedRows === 0) return res.status(404)
ReportsMissing == version \in {"part0b", "part2"}

\* The key the row has after the update.
NewId(id, body) == IF KeepsId \/ body.id = NoId THEN id ELSE body.id

\* PUT /api/employees/:id.  An id that is the key of another row is a
\* duplicate key: the statement fails and writes nothing.
UpdateEmployee(id, body) ==
    /\ edits < MaxEdits
    /\ edits' = edits + 1
    /\ LET to == NewId(id, body)
           found == id \in DOMAIN employees
           clash == found /\ to # id /\ to \in DOMAIN employees
       IN /\ employees' =
                IF found /\ ~clash
                THEN [e \in (DOMAIN employees \ {id}) \cup {to} |->
                         IF e = to THEN EditRow(employees[id], body) ELSE employees[e]]
                ELSE employees
          /\ response' = [code |-> IF clash THEN 500
                                   ELSE IF ~found /\ ReportsMissing THEN 404 ELSE 200]
    /\ UNCHANGED <<posted, schema, version, leaves, loans, calls, pending, faults, lookups, mails>>

\* DELETE /api/employees/:id
DeleteEmployee(id) ==
    /\ edits < MaxEdits
    /\ id \in DOMAIN employees
    /\ edits' = edits + 1
    /\ employees' = [e \in DOMAIN employees \ {id} |-> employees[e]]
    /\ response' = [code |-> 200]
    /\ UNCHANGED <<posted, schema, version, leaves, loans, calls, pending, faults, lookups, mails>>

\* The row INSERT INTO employees SET req.body writes: the columns the body
\* names, and the column default in every other column of the table.
NewRow(body) ==
    [c \in (EmployeeColumns \ BalanceColumns) \cup DOMAIN schema.defaults |->
        CASE c \in {"name", "email"} -> body.id
          [] c = "role" -> DefaultRole
          [] c = "leave_annual" -> IF body.has_annual THEN body.value ELSE schema.defaults[c]
          [] c = "leave_casual" -> IF body.has_casual THEN body.value ELSE schema.defaults[c]
          [] c \in LedgerColumns -> IF body.has_ledger THEN body.value ELSE 0
          [] OTHER -> 0]

\* The statement fails: the table is missing, the body names a column the
\* table does not have, or the id is taken (id is the primary key).
InsertRefused(body) ==
    \/ ~schema.table
    \/ body.has_annual /\ "leave_annual" \notin DOMAIN schema.defaults
    \/ body.has_casual /\ "leave_casual" \notin DOMAIN schema.defaults
    \/ body.id \in DOMAIN employees

\* v11, v9_5 and v7_3 mail the credentials to the new employee.
MailsCredentials == version \in {"v11", "v9_5", "v7_3"}

\* POST /api/employees: INSERT INTO employees SET req.body, and its
\* callback: 500 on error, otherwise (some iterations) hand the welcome
\* e-mail to the transporter, and answer success.
CreateEmployee(body, ok) ==
    /\ schema.synced
    /\ edits < MaxEdits
    /\ edits' = edits + 1
    /\ ok \/ faults < MaxFaults
    /\ faults' = IF ok THEN faults ELSE faults + 1
    /\ MailsCredentials => BagCardinality(lookups) + Len(mails) < MaxMails
    /\ LET done == ok /\ ~InsertRefused(body)
       IN /\ employees' = IF done
                          THEN [e \in DOMAIN employees \cup {body.id} |->
                                   IF e = body.id THEN NewRow(body) ELSE employees[e]]
                          ELSE employees
          /\ response' = [code |-> IF done THEN 200 ELSE 500]
          /\ mails' = IF done /\ MailsCredentials
                      THEN Append(mails, Mail("welcome", body.id, NoCall, ""))
                      ELSE mails
    /\ UNCHANGED <<posted, schema, version, leaves, loans, calls, pending, lookups>>

\* -------------------------------------------------------- payroll ledger
HasWipe == version \in {"v7_3", "part0b", "part0d", "part2"}
HasReset == version \in {"part0b", "part0d", "part2"}

\* A reset that clears the opening loan balance with the ledger.
ZeroLedgerAndLoan(row) ==
    [c \in DOMAIN row |->
        IF c \in LedgerColumns \cup {"loan_opening_balance"} THEN 0 ELSE row[c]]

\* A reset that clears the leave balances with the ledger.
ZeroLedgerAndLeave(row) ==
    [c \in DOMAIN row |-> IF c \in LedgerColumns \cup BalanceColumns THEN 0 ELSE row[c]]

\* SET basic_salary = 0, invigilation = 0, t_payment = 0, increment = 0,
\*     eidi = 0, tax = 0, loan_deduction = 0, insurance = 0,
\*     others_deduction = 0, extra_leaves_deduction = 0
ZeroLedger(row) ==
    [c \in DOMAIN row |-> IF c \in LedgerColumns THEN 0 ELSE row[c]]

\* POST /api/employees/wipe-ledger: the UPDATE has no WHERE.  v7_3 answers
\* success whatever the statement did; the others answer 500 on error.
WipeLedger(ok) ==
    /\ HasWipe
    /\ edits < MaxEdits
    /\ edits' = edits + 1
    /\ ok \/ faults < MaxFaults
    /\ faults' = IF ok THEN faults ELSE faults + 1
    /\ employees' = IF ok THEN [e \in DOMAIN employees |-> ZeroLedger(employees[e])]
                    ELSE employees
    /\ response' = [code |-> IF ok \/ version = "v7_3" THEN 200 ELSE 500]
    /\ UNCHANGED <<posted, schema, version, leaves, loans, calls, pending, lookups, mails>>

\* POST /api/employees/reset-salary/:id: the same UPDATE ... WHERE id = ?
ResetSalary(id, ok) ==
    /\ HasReset
    /\ edits < MaxEdits
    /\ edits' = edits + 1
    /\ ok \/ faults < MaxFaults
    /\ faults' = IF ok THEN faults ELSE faults + 1
    /\ employees' = IF ok /\ id \in DOMAIN employees
                    THEN [employees EXCEPT ![id] = ZeroLedger(@)]
                    ELSE employees
    /\ response' = [code |-> IF ok THEN 200 ELSE 500]
    /\ UNCHANGED <<posted, schema, version, leaves, loans, calls, pending, lookups, mails>>

\* -------------------------------------------------------- payroll posts
NoMonth == ""
NullMonth == "NULL"

\* part0c and part2: if (!month) return res.status(400)
RequiresMonth == version \in {"part0c", "part2"}

\* v1 and v7_3 answer success without looking at the error.
IgnoresPostError == version \in {"v1", "v7_3"}

\* v11 has no DELETE /api/payroll-post/:month.
HasUnpost == version # "v11"

\* What INSERT IGNORE stores for the month of the body.  A body without
\* month binds NULL: month_year VARCHAR(10) UNIQUE takes it, while v1's
\* month_year VARCHAR(10) PRIMARY KEY is NOT NULL and IGNORE stores ''.
StoredMonth(month) ==
    IF month # NoMonth THEN month ELSE IF version = "v1" THEN "" ELSE NullMonth

Posted(rows) == {rows[i] : i \in DOMAIN rows}

\* A plain INSERT: no row is ever taken for a duplicate.
IsDuplicateNever(rows, month_year) == FALSE

\* The unique index on month_year: a row whose month_year is already there
\* is a duplicate; NULL is never equal to anything.
IsDuplicate(rows, month_year) ==
    month_year # NullMonth /\ month_year \in Posted(rows)

\* POST /api/payroll-post: INSERT IGNORE INTO payroll_posts (month_year)
\* VALUES (?).  A duplicate is skipped without an error.
PayrollPost(month, ok) ==
    /\ LET refused == RequiresMonth /\ month = NoMonth
           stored == ok /\ ~refused /\ ~IsDuplicate(posted, StoredMonth(month))
       IN /\ stored => Len(posted) < MaxPosts
          /\ ok \/ (faults < MaxFaults /\ ~refused)
          /\ faults' = IF ok THEN faults ELSE faults + 1
          /\ posted' = IF stored THEN Append(posted, StoredMonth(month)) ELSE posted
          /\ response' = [code |-> IF refused THEN 400
                                   ELSE IF ok \/ IgnoresPostError THEN 200 ELSE 500]
    /\ UNCHANGED <<schema, version, employees, leaves, loans, calls, pending, edits,
                   lookups, mails>>

\* DELETE /api/payroll-post/:month: DELETE FROM payroll_posts WHERE
\* month_year = ?
PayrollUnpost(month, ok) ==
    /\ HasUnpost
    /\ ok \/ faults < MaxFaults
    /\ faults' = IF ok THEN faults ELSE faults + 1
    /\ posted' = IF ok THEN SelectSeq(posted, LAMBDA m : m # month) ELSE posted
    /\ response' = [code |-> IF ok \/ IgnoresPostError THEN 200 ELSE 500]
    /\ UNCHANGED <<schema, version, employees, leaves, loans, calls, pending, edits,
                   lookups, mails>>

\* ------------------------------------------------------------ attendance
\* v11, v9_5, v7_3 and part0d tell the employee about the mark.
NotifiesAttendance == version \in {"v11", "v9_5", "v7_3", "part0d"}

\* v1 and part0b answer success without looking at the error.
IgnoresAttendanceError == version \in {"v1", "part0b"}

\* POST /api/attendance: INSERT INTO attendance, and its callback: 500 on
\* error, otherwise issue the recipient lookup (some iterations) and answer
\* success.  The rows of the attendance table are not kept: no other
\* statement of the handlers modelled here reads them.
PostAttendance(employee_id, ok) ==
    /\ ok \/ faults < MaxFaults
    /\ faults' = IF ok THEN faults ELSE faults + 1
    /\ NotifiesAttendance => BagCardinality(lookups) + Len(mails) < MaxMails
    /\ response' = [code |-> IF ok \/ IgnoresAttendanceError THEN 200 ELSE 500]
    /\ lookups' = IF ok /\ NotifiesAttendance
                  THEN lookups (+) SetToBag({Lookup("attendance", employee_id, 0, NoCall, "")})
                  ELSE lookups
    /\ UNCHANGED <<posted, schema, version, employees, leaves, loans, calls, pending,
                   edits, mails>>

\* --------------------------------------------------------- schema set-up
\* Only v1 creates the employees table (CREATE TABLE IF NOT EXISTS).
CreatesTable == version = "v1"

\* v1, v11, v9_5, v7_3 and legacy add the balance columns to a table that
\* lacks them.
MigratesBalances == version \in {"v1", "v11", "v9_5", "v7_3", "legacy"}

\* The default of a balance column added by the migration.  v1:
\*   (col === 'leave_annual' || col === 'leave_casual')
\*       ? `ALTER TABLE employees ADD COLUMN ${col} INT DEFAULT 10`
\* the others: ADD COLUMN IF NOT EXISTS leave_annual INT DEFAULT 14,
\*             ADD COLUMN IF NOT EXISTS leave_casual INT DEFAULT 10
MigrationDefault(c) == IF version = "v1" THEN 10 ELSE BalanceDefaults[c]

NoColumns == [c \in {} |-> 0]

\* The set-up the iteration runs when it starts (initSystem, syncSchema,
\* initDB): create the table when it is missing, then add each balance
\* column the table lacks; the rows already there take the default of an
\* added column.
InitSystem ==
    /\ ~schema.synced
    /\ LET table == schema.table \/ CreatesTable
           declared == IF schema.table THEN schema.defaults
                       ELSE IF CreatesTable THEN BalanceDefaults ELSE NoColumns
           defaults == IF table /\ MigratesBalances
                       THEN [c \in BalanceColumns |->
                                IF c \in DOMAIN declared THEN declared[c]
                                ELSE MigrationDefault(c)]
                       ELSE declared
       IN /\ schema' = [table |-> table, synced |-> TRUE, defaults |-> defaults]
          /\ employees' =
                [e \in DOMAIN employees |->
                    [c \in DOMAIN employees[e] \cup DOMAIN defaults |->
                        IF c \in DOMAIN employees[e] THEN employees[e][c]
                        ELSE defaults[c]]]
    /\ UNCHANGED <<posted, version, leaves, loans, calls, pending, response, faults,
                   edits, lookups, mails>>

\* Nothing submitted, decided, posted or sent yet.
Idle ==
    /\ leaves = <<>>
    /\ loans = <<>>
    /\ calls = <<>>
    /\ pending = EmptyBag
    /\ response = [code |-> 0]
    /\ faults = 0
    /\ edits = 0
    /\ lookups = EmptyBag
    /\ mails = <<>>
    /\ posted = <<>>

Init ==
    /\ version \in Versions
    /\ employees = [e \in EmpIds |-> SeedRow(e)]
    /\ schema = DeclaredSchema
    /\ Idle

\* ------------------------------------------------------- specifications
\* The leave workflow when every statement succeeds: submissions, admin
\* decisions with their statements interleaved at the store, and the legacy
\* status update.  The recipient lookups the handlers issue stay with the
\* pool here: executing them touches lookups and mails only (SpecNotify).
Next ==
    \/ \E body \in LeaveBodies : SubmitLeave(body, TRUE)
    \/ \E id \in 1..(Len(leaves) + 1), status \in StatusInputs :
          DecideLeaveSelect(id, status, TRUE)
    \/ \E h \in DOMAIN calls : DecideLeaveUpdate(h, TRUE)
    \/ \E s \in BagToSet(pending) : ExecDeduction(s, TRUE)
    \/ \E id \in 1..(Len(leaves) + 1), status \in StatusInputs :
          PutLeaveStatus(id, status, TRUE)

Spec == Init /\ [][Next]_vars

\* The same workflow with failing statements and process crashes.
NextFaults ==
    \/ \E body \in LeaveBodies, ok \in BOOLEAN : SubmitLeave(body, ok)
    \/ \E id \in 1..(Len(leaves) + 1), status \in StatusInputs, ok \in BOOLEAN :
          DecideLeaveSelect(id, status, ok)
    \/ \E h \in DOMAIN calls, ok \in BOOLEAN : DecideLeaveUpdate(h, ok)
    \/ \E s \in BagToSet(pending), ok \in BOOLEAN : ExecDeduction(s, ok)
    \/ Crash
    \/ \E id \in 1..(Len(leaves) + 1), status \in StatusInputs, ok \in BOOLEAN :
          PutLeaveStatus(id, status, ok)

SpecFaults == Init /\ [][NextFaults]_vars

\* Submissions only, with every input a client can send.
NextSubmit ==
    \/ \E body \in LeaveBodies, ok \in BOOLEAN : SubmitLeave(body, ok)
    \/ \E body \in LoanBodies, ok \in BOOLEAN : SubmitLoan(body, ok)

SpecSubmit == Init /\ [][NextSubmit]_vars

\* The single-statement handlers: submissions, loan decisions and
\* administrative writes to the employees table.  As in Spec, the recipient
\* lookups stay with the pool.
NextCrud ==
    \/ NextSubmit
    \/ \E id \in 1..(Len(loans) + 1), status \in StatusInputs, ok \in BOOLEAN :
          DecideLoan(id, status, ok)
    \/ \E id \in EmpIds, body \in EditBodies : UpdateEmployee(id, body)
    \/ \E id \in EmpIds : DeleteEmployee(id)

SpecCrud == Init /\ [][NextCrud]_vars

\* Decisions and submissions of one employee's requests together with the
\* notifications they start, with failing statements and failing sends.
NotifyLeaveBodies ==
    {b \in LeaveBodies : /\ b.employeeId = "E1" /\ b.type = "Casual"
                         /\ b.days = MaxDays /\ b.status = "none"}

NotifyLoanBodies ==
    {b \in LoanBodies : b.employeeId = "E1" /\ b.amount = MaxAmount /\ b.status = "none"}

Decisions == {"Approved", "Rejected"}

NextNotify ==
    \/ \E body \in NotifyLeaveBodies, ok \in BOOLEAN : SubmitLeave(body, ok)
    \/ \E body \in NotifyLoanBodies, ok \in BOOLEAN : SubmitLoan(body, ok)
    \/ \E id \in 1..(Len(leaves) + 1), status \in Decisions, ok \in BOOLEAN :
          Len(calls) < NotifyCalls /\ DecideLeaveSelect(id, status, ok)
    \/ \E h \in DOMAIN calls, ok \in BOOLEAN : DecideLeaveUpdate(h, ok)
    \/ \E s \in BagToSet(pending), ok \in BOOLEAN : ExecDeduction(s, ok)
    \/ \E id \in 1..(Len(loans) + 1), status \in Decisions, ok \in BOOLEAN :
          DecideLoan(id, status, ok)
    \/ \E l \in BagToSet(lookups), ok \in BOOLEAN : ExecLookup(l, ok)
    \/ \E i \in DOMAIN mails, ok \in BOOLEAN : MailDone(i, ok)
    \/ \E i \in DOMAIN mails : UnhandledRejection(i)

SpecNotify == Init /\ [][NextNotify]_vars

\* The same steps, where the store completes (with success or with an
\* error) every statement a decision handler waits for.  Nothing is assumed
\* of the recipient lookups and of the transporter.
StoreCompletes ==
    \A h \in 1..MaxCalls : WF_vars(\E ok \in BOOLEAN : DecideLeaveUpdate(h, ok))

SpecLive == Init /\ [][NextNotify]_vars /\ StoreCompletes

\* Approvals against whatever balance an administrator has set, for
\* requests of any leave type a client sends, every statement succeeding.
OtherLeaveTypes == {"Sick"}
LowBalances == {0}

BalanceLeaveBodies ==
    [employeeId : {"E1"}, type : LeaveTypes \cup OtherLeaveTypes,
     days : 1..MaxDays, status : {"none"}]

LowEditBodies == EmployeeBodies({NoId}, LowBalances, {FALSE})

NextBalance ==
    \/ \E body \in BalanceLeaveBodies : SubmitLeave(body, TRUE)
    \/ \E body \in LowEditBodies : UpdateEmployee("E1", body)
    \/ \E id \in 1..(Len(leaves) + 1), status \in Decisions :
          DecideLeaveSelect(id, status, TRUE)
    \/ \E h \in DOMAIN calls : DecideLeaveUpdate(h, TRUE)
    \/ \E s \in BagToSet(pending) : ExecDeduction(s, TRUE)

SpecBalance == Init /\ [][NextBalance]_vars

\* The handlers of the employees table and of the payroll posts, in every
\* iteration, next to the leave and loan workflow of the four iterations
\* above: one employee write, against requests being submitted and decided.
NewIds == {"E3"}

AdminEditBodies == EmployeeBodies({NoId} \cup EmpIds \cup NewIds, EditBalances, BOOLEAN)

CreateBodies == {b \in EmployeeBodies(EmpIds \cup NewIds, EditBalances, BOOLEAN) : b.has_name}

AdminLeaveBodies ==
    {b \in LeaveBodies : b.type = "Annual Leave" /\ b.days = MaxDays /\ b.status = "none"}

AdminMonths == {"2024-01"}

InitAdmin ==
    /\ version \in Iterations
    /\ employees = [e \in EmpIds |-> SeedRow(e)]
    /\ schema = DeclaredSchema
    /\ Idle

NextAdmin ==
    \/ \E body \in AdminLeaveBodies : version \in Versions /\ SubmitLeave(body, TRUE)
    \/ \E body \in NotifyLoanBodies : version \in Versions /\ SubmitLoan(body, TRUE)
    \/ \E id \in 1..(Len(leaves) + 1), status \in Decisions :
          Len(calls) < NotifyCalls /\ DecideLeaveSelect(id, status, TRUE)
    \/ \E h \in DOMAIN calls : DecideLeaveUpdate(h, TRUE)
    \/ \E s \in BagToSet(pending) : ExecDeduction(s, TRUE)
    \/ \E id \in 1..(Len(leaves) + 1), status \in Decisions :
          PutLeaveStatus(id, status, TRUE)
    \/ \E id \in 1..(Len(loans) + 1), status \in Decisions : DecideLoan(id, status, TRUE)
    \/ PostAttendance("E1", TRUE)
    \/ \E month \in AdminMonths : PayrollPost(month, TRUE)
    \/ \E month \in AdminMonths : PayrollUnpost(month, TRUE)
    \/ \E body \in CreateBodies : CreateEmployee(body, TRUE)
    \/ \E id \in EmpIds \cup NewIds, body \in AdminEditBodies :
          ~body.has_name /\ UpdateEmployee(id, body)
    \/ \E id \in EmpIds : DeleteEmployee(id)
    \/ WipeLedger(TRUE)
    \/ \E id \in EmpIds \cup NewIds : ResetSalary(id, TRUE)

SpecAdmin == InitAdmin /\ [][NextAdmin]_vars

\* Payroll posting alone, with a body that has no month and with failing
\* statements.
NextPayroll ==
    \/ \E month \in Months \cup {NoMonth}, ok \in BOOLEAN : PayrollPost(month, ok)
    \/ \E month \in Months, ok \in BOOLEAN : PayrollUnpost(month, ok)

SpecPayroll == InitAdmin /\ [][NextPayroll]_vars

\* The writes to the employees table alone, on a database in use: one or
\* both employees on file, each row as it was seeded or as an earlier
\* update left it.
UsedRows(id) ==
    {EditRow(SeedRow(id), b) :
        b \in {x \in EmployeeBodies({NoId}, EditBalances, BOOLEAN) :
                  x.has_casual = x.has_annual /\ x.has_name = x.has_ledger}}

InitLedger ==
    /\ version \in Iterations
    /\ \E S \in (SUBSET EmpIds) \ {{}} :
          employees \in {f \in [S -> UNION {UsedRows(e) : e \in S}] :
                            \A e \in S : f[e] \in UsedRows(e)}
    /\ schema = DeclaredSchema
    /\ Idle

NextLedger ==
    \/ \E body \in CreateBodies, ok \in BOOLEAN : CreateEmployee(body, ok)
    \/ \E id \in EmpIds \cup NewIds, body \in AdminEditBodies : UpdateEmployee(id, body)
    \/ \E id \in EmpIds : DeleteEmployee(id)
    \/ \E ok \in BOOLEAN : WipeLedger(ok)
    \/ \E id \in EmpIds \cup NewIds, ok \in BOOLEAN : ResetSalary(id, ok)

SpecLedger == InitLedger /\ [][NextLedger]_vars

\* An iteration starting on a database an earlier deployment left behind:
\* no employees table, or a table with none, one or both of the balance
\* columns, empty or with a row; then employees are created.
OldSchemas ==
    {[table |-> FALSE, synced |-> FALSE, defaults |-> NoColumns]} \cup
    {[table |-> TRUE, synced |-> FALSE, defaults |-> [c \in S |-> BalanceDefaults[c]]] :
        S \in SUBSET BalanceColumns}

OldRow(id, defaults) ==
    [c \in (EmployeeColumns \ BalanceColumns) \cup DOMAIN defaults |-> SeedRow(id)[c]]

NoRows == [e \in {} |-> NoColumns]

InitSchema ==
    /\ version \in Iterations
    /\ schema \in OldSchemas
    /\ employees \in (IF schema.table
                      THEN {NoRows, [e \in {"E1"} |-> OldRow(e, schema.defaults)]}
                      ELSE {NoRows})
    /\ Idle

NextSchema ==
    \/ InitSystem
    \/ \E body \in CreateBodies, ok \in BOOLEAN : CreateEmployee(body, ok)

SpecSchema == InitSchema /\ [][NextSchema]_vars

\* ================================================================ claims
Quiet == pending = EmptyBag /\ \A h \in DOMAIN calls : ~InFlight(calls[h])

AnnualColumn(leave_type) ==
    IF leave_type = "Annual Leave" THEN "leave_annual" ELSE "leave_casual"

InitBalance(col) == IF col = "leave_annual" THEN InitAnnual ELSE InitCasual

Columns == {"leave_annual", "leave_casual"}

\* days of the Approved rows 1..n of employee e that count against col
RECURSIVE ApprovedDays(_, _, _)
ApprovedDays(e, col, n) ==
    IF n = 0 THEN 0
    ELSE ApprovedDays(e, col, n - 1) +
         (IF /\ leaves[n].status = "Approved"
             /\ leaves[n].employee_id = e
             /\ AnnualColumn(leaves[n].leave_type) = col
          THEN leaves[n].days ELSE 0)

ValidDays == \A i \in DOMAIN leaves : leaves[i].days >= 1

Consistent ==
    \A e \in DOMAIN employees, col \in Columns :
        employees[e][col] = InitBalance(col) - ApprovedDays(e, col, Len(leaves))

\* a call that answered success to an 'Approved' decision
Approves(c) == c.pc = "done" /\ c.code = 200 /\ c.status = "Approved"

\* days of the successful approvals 1..n for employee e that count against col
RECURSIVE AnsweredDays(_, _, _)
AnsweredDays(e, col, n) ==
    IF n = 0 THEN 0
    ELSE AnsweredDays(e, col, n - 1) +
         (IF /\ Approves(calls[n])
             /\ calls[n].leave.employee_id = e
             /\ AnnualColumn(calls[n].leave.leave_type) = col
          THEN calls[n].leave.days ELSE 0)

\* days of the balance updates for (e, col) the store has not executed yet
RECURSIVE QueuedDays(_, _, _)
QueuedDays(e, col, S) ==
    IF S = {} THEN 0
    ELSE LET s == CHOOSE x \in S : TRUE
         IN QueuedDays(e, col, S \ {s}) +
            (IF s.employee_id = e /\ s.column = col
             THEN s.days * CopiesIn(s, pending) ELSE 0)

\* C1: a decision on a request that is already Approved or Rejected is
\* answered 409 InvalidState (and so writes nothing).
C1_RedecisionRefused ==
    \A h \in DOMAIN calls :
        (calls[h].pc = "done" /\ calls[h].leave.status \in {"Approved", "Rejected"})
            => calls[h].code = 409

\* C2: of two decisions on the same request that both read it as Pending,
\* exactly one succeeds and the other is answered 409.
C2_OneWinner ==
    \A h1, h2 \in DOMAIN calls :
        (/\ h1 < h2
         /\ calls[h1].id = calls[h2].id
         /\ calls[h1].leave.status = "Pending" /\ calls[h2].leave.status = "Pending"
         /\ calls[h1].pc = "done" /\ calls[h2].pc = "done")
            => {calls[h1].code, calls[h2].code} = {200, 409}

\* C3: once the status of a leave request is Approved or Rejected, no step
\* changes it.
C3_StatusChangesOnce ==
    [][\A i \in DOMAIN leaves :
          leaves[i].status \in {"Approved", "Rejected"}
             => leaves'[i].status = leaves[i].status]_vars

\* C4: under the iterations with admin decisions, with requests of positive
\* days, no administrative edit, no decision in flight (and no failed
\* statement or crash), every balance equals its initial value minus the
\* days of the employee's Approved requests on that column.
C4_BalanceMatchesStatus ==
    (HasAdminDecisions /\ ValidDays /\ edits = 0 /\ faults = 0 /\ Quiet) => Consistent

C6_RejectionFrame ==
    [][\A h \in DOMAIN calls :
          (/\ calls[h].pc = "update" /\ calls'[h].pc = "done"
           /\ calls'[h].code = 200 /\ faults' = faults
           /\ calls[h].status = "Rejected"
           /\ leaves[calls[h].id].status = "Pending")
             => /\ leaves'[calls[h].id].status = "Rejected"
                /\ employees' = employees
                /\ pending' = pending]_vars

C6_Witness ==
    \E h \in DOMAIN calls :
        /\ calls[h].pc = "done" /\ calls[h].code = 200
        /\ calls[h].status = "Rejected" /\ calls[h].leave.status = "Pending"
        /\ leaves[calls[h].id].status = "Rejected"
        /\ faults = 0 /\ Len(calls) = 1
        /\ \A e \in DOMAIN employees :
              employees[e].leave_annual = InitAnnual /\ employees[e].leave_casual = InitCasual

C8_ApprovalAtomic ==
    (Len(calls) = 1 /\ ValidDays /\ edits = 0 /\ Quiet) => Consistent

\* C9: no balance update is lost: with every statement executed, each
\* balance equals its initial value minus the days of all successful
\* approvals on that column, less the updates the store still holds.
C9_NoLostUpdate ==
    (faults = 0 /\ edits = 0)
        => \A e \in DOMAIN employees, col \in Columns :
              employees[e][col] =
                  InitBalance(col) - AnsweredDays(e, col, Len(calls))
                                   + QueuedDays(e, col, BagToSet(pending))

C9_Witness ==
    /\ Len(calls) = 2
    /\ calls[1].id # calls[2].id
    /\ Approves(calls[1]) /\ Approves(calls[2])
    /\ calls[1].leave.status = "Pending" /\ calls[2].leave.status = "Pending"
    /\ calls[1].leave.employee_id = calls[2].leave.employee_id
    /\ calls[1].leave.leave_type = calls[2].leave.leave_type
    /\ calls[1].leave.days > 0 /\ calls[2].leave.days > 0
    /\ faults = 0 /\ pending = EmptyBag
    /\ employees[calls[1].leave.employee_id][AnnualColumn(calls[1].leave.leave_type)]
          = InitBalance(AnnualColumn(calls[1].leave.leave_type))
              - calls[1].leave.days - calls[2].leave.days

\* C10: a leave submission with days = 0 or negative days is answered 400
\* and stores no row.
C10_NonPositiveDaysRefused ==
    [][\A body \in LeaveBodies :
          (body.days <= 0 /\ SubmitLeave(body, TRUE))
             => (response'.code = 400 /\ leaves' = leaves)]_vars

\* a step of PUT /api/admin/loans/:id whose UPDATE succeeded
LoanDecided(id) == \E status \in StatusInputs : DecideLoan(id, status, TRUE)

\* C11: a decision on a leave or loan id that does not exist is answered
\* 404, never success, and changes no request and no employee row.
C11_MissingRequestNotFound ==
    [][/\ \A h \in DOMAIN calls' :
            (calls'[h].pc = "done" /\ calls'[h].leave = NoLeave)
               => calls'[h].code = 404
       /\ \A id \in 1..(MaxRequests + 1) :
            (id \notin DOMAIN loans /\ LoanDecided(id))
               => /\ response'.code = 404
                  /\ loans' = loans /\ leaves' = leaves /\ employees' = employees]_vars

\* C12: a leave submission for an employee id with no employee row is
\* answered 404 and stores no row.
C12_UnknownEmployeeRefused ==
    [][\A body \in LeaveBodies :
          (body.employeeId \notin DOMAIN employees /\ body.days >= 1 /\ SubmitLeave(body, TRUE))
             => (response'.code = 404 /\ leaves' = leaves)]_vars

\* a step of a loan handler, whatever its outcome
LoanStep ==
    \/ \E body \in LoanBodies, ok \in BOOLEAN : SubmitLoan(body, ok)
    \/ \E id \in 1..(MaxRequests + 1), status \in StatusInputs, ok \in BOOLEAN :
          DecideLoan(id, status, ok)

\* no loan submission and no loan decision changes an employee row
LoanStepsKeepBalances == [][LoanStep => employees' = employees]_vars

\* C13: a decision on a loan that is not Pending is answered 409 and writes
\* nothing, an Approved or Rejected loan keeps its status, and no loan
\* submission or decision changes an employee row.
C13_LoanStateMachine ==
    [][/\ \A id \in DOMAIN loans :
            (loans[id].status # "Pending" /\ LoanDecided(id))
               => (response'.code = 409 /\ loans' = loans)
       /\ \A id \in DOMAIN loans :
            loans[id].status \in {"Approved", "Rejected"}
               => loans'[id].status = loans[id].status
       /\ LoanStep => employees' = employees]_vars

\* the balance the statement s is about, in the current state
Balance(s) == employees[s.employee_id][s.column]

\* C14: an approval is not blocked by the balance: approving a request of d
\* days succeeds whatever the balance, and the balance update executed
\* against a balance b < d leaves b - d, below zero.
C14_NegativeBalanceAllowed ==
    [][/\ \A h \in DOMAIN calls :
            (/\ calls[h].pc = "update" /\ calls[h].status = "Approved"
             /\ DecideLeaveUpdate(h, TRUE))
               => /\ calls'[h].code = 200
                  /\ leaves'[calls[h].id].status = "Approved"
                  /\ BagIn(Deduction(calls[h].leave), pending')
       /\ \A s \in BagToSet(pending) :
            (/\ s.employee_id \in DOMAIN employees
             /\ Balance(s) < s.days
             /\ ExecDeduction(s, TRUE))
               => /\ employees'[s.employee_id][s.column] = Balance(s) - s.days
                  /\ employees'[s.employee_id][s.column] < 0]_vars

C14_Witness ==
    \E h \in DOMAIN calls :
        /\ Approves(calls[h])
        /\ calls[h].leave.leave_type = "Casual"
        /\ calls[h].leave.days > 0
        /\ Len(calls) = 1 /\ pending = EmptyBag
        /\ employees[calls[h].leave.employee_id].leave_casual = 0 - calls[h].leave.days

\* nothing stored changes, no notification is started
NothingWritten ==
    /\ leaves' = leaves /\ loans' = loans /\ employees' = employees
    /\ pending' = pending /\ lookups' = lookups /\ mails' = mails

\* C15: a submission or decision whose write fails is answered 500, changes
\* nothing stored, issues no balance update and starts no notification; and
\* no acknowledgment is mailed for a leave submission that stored no row.
C15_FailedWriteSurfaced ==
    [][/\ \A body \in LeaveBodies :
            SubmitLeave(body, FALSE) => (response'.code = 500 /\ NothingWritten)
       /\ \A body \in LoanBodies :
            SubmitLoan(body, FALSE) => (response'.code = 500 /\ NothingWritten)
       /\ \A h \in DOMAIN calls :
            DecideLeaveUpdate(h, FALSE) => (calls'[h].code = 500 /\ NothingWritten)
       /\ \A id \in 1..(MaxRequests + 1), status \in StatusInputs :
            DecideLoan(id, status, FALSE) => (response'.code = 500 /\ NothingWritten)
       /\ \A l \in BagToSet(lookups) :
            (/\ l.kind = "leave_submit"
             /\ \A i \in DOMAIN leaves : leaves[i].employee_id # l.employee_id
             /\ ExecLookup(l, TRUE))
               => mails' = mails]_vars

\* a step of the notification path: a recipient lookup, or the transporter
\* finishing with an e-mail, whatever the outcome
NotificationStep ==
    \/ \E l \in BagToSet(lookups), ok \in BOOLEAN : ExecLookup(l, ok)
    \/ \E i \in DOMAIN mails, ok \in BOOLEAN : MailDone(i, ok)
    \/ \E i \in DOMAIN mails : UnhandledRejection(i)

\* C16: a handler whose write succeeded answers success in the step that
\* starts the notification, and no later step of the notification, failed
\* or not, changes an answer or a stored row.
C16_NotificationNeverSurfaces ==
    [][/\ \A body \in LeaveBodies :
            SubmitLeave(body, TRUE) => response'.code = 200
       /\ \A body \in LoanBodies :
            (SubmitLoan(body, TRUE) /\ ~LoanRejected(body)) => response'.code = 200
       /\ \A h \in DOMAIN calls :
            DecideLeaveUpdate(h, TRUE) => calls'[h].code = 200
       /\ \A id \in 1..(MaxRequests + 1), status \in StatusInputs :
            DecideLoan(id, status, TRUE) => response'.code = 200
       /\ NotificationStep
            => /\ response' = response /\ calls' = calls
               /\ leaves' = leaves /\ loans' = loans /\ employees' = employees]_vars

C16_Witness ==
    \E i \in DOMAIN mails :
        /\ mails[i].kind = "leave_decision"
        /\ mails[i].state = "failed"
        /\ calls[mails[i].call].pc = "done"
        /\ calls[mails[i].call].code = 200
        /\ leaves[calls[mails[i].call].id].status = mails[i].status

\* C17: when the outcome e-mail of an Approved decision has been handed to
\* the transporter (no statement having failed), the request is Approved at
\* the store and the balance update of the decision has been executed.
C17_MailAfterCommit ==
    \A i \in DOMAIN mails :
        (mails[i].kind = "leave_decision" /\ mails[i].status = "Approved" /\ faults = 0)
            => /\ leaves[calls[mails[i].call].id].status = "Approved"
               /\ ~BagIn(Deduction(calls[mails[i].call].leave), pending)

\* the handler h has written its response
Answered(h) ==
    h \in DOMAIN calls /\ calls[h].pc = "done" /\ calls[h].code \in {200, 404, 500}

\* C18: every decision call that has been received is eventually answered,
\* with no assumption on the notification path; an answered call is never
\* answered again; the single-statement handlers answer in the callback of
\* their statement.
C18_EventuallyAnswers ==
    /\ \A h \in 1..MaxCalls : [](h \in DOMAIN calls => <>Answered(h))
    /\ [][/\ \A h \in DOMAIN calls : Answered(h) => calls'[h] = calls[h]
          /\ \A id \in 1..(MaxRequests + 1), status \in Decisions, ok \in BOOLEAN :
               DecideLoan(id, status, ok) => response'.code \in {200, 500}
          /\ \A body \in NotifyLeaveBodies, ok \in BOOLEAN :
               SubmitLeave(body, ok) => response'.code \in {200, 500}
          /\ \A body \in NotifyLoanBodies, ok \in BOOLEAN :
               SubmitLoan(body, ok) => response'.code \in {200, 400, 500}]_vars

\* a call answered with success while its notification has not completed
C18_Witness ==
    \E h \in DOMAIN calls :
        /\ Answered(h) /\ calls[h].code = 200
        /\ \E l \in BagToSet(lookups) : l.kind = "leave_decision" /\ l.call = h

\* the only column the statement s may change, lowered by its days
OnlyColumnLowered(s) ==
    /\ employees'[s.employee_id][s.column] = employees[s.employee_id][s.column] - s.days
    /\ \A e \in DOMAIN employees, col \in Columns :
          (e # s.employee_id \/ col # s.column) => employees'[e][col] = employees[e][col]

\* C19: the balance update an approval issues names leave_annual when the
\* request's leave type is 'Annual Leave' and leave_casual for every other
\* type, and the statement, executed, lowers that column only.
C19_ColumnByLeaveType ==
    [][/\ \A h \in DOMAIN calls :
            (/\ calls[h].pc = "update" /\ calls[h].status = "Approved"
             /\ DecideLeaveUpdate(h, TRUE))
               => pending' = pending (+) SetToBag({
                     [column |-> IF calls[h].leave.leave_type = "Annual Leave"
                                 THEN "leave_annual" ELSE "leave_casual",
                      days |-> calls[h].leave.days,
                      employee_id |-> calls[h].leave.employee_id]})
       /\ \A s \in BagToSet(pending) :
            (s.employee_id \in DOMAIN employees /\ ExecDeduction(s, TRUE))
               => OnlyColumnLowered(s)]_vars

C19_Witness ==
    \E h \in DOMAIN calls :
        /\ Approves(calls[h])
        /\ calls[h].leave.leave_type \in OtherLeaveTypes
        /\ calls[h].leave.days > 0
        /\ Len(calls) = 1 /\ pending = EmptyBag /\ edits = 0
        /\ employees[calls[h].leave.employee_id].leave_casual
              = InitCasual - calls[h].leave.days
        /\ employees[calls[h].leave.employee_id].leave_annual = InitAnnual

\* the values of the status enumeration
RequestStatuses == {"Pending", "Approved", "Rejected"}

\* C20: the status of every leave and loan request is Pending, Approved or
\* Rejected.
C20_StatusEnumerated ==
    /\ \A i \in DOMAIN leaves : leaves[i].status \in RequestStatuses
    /\ \A i \in DOMAIN loans : loans[i].status \in RequestStatuses

\* C21: a loan submission with amount = 0 or a negative amount is answered
\* 400 and stores no row.
C21_NonPositiveAmountRefused ==
    [][\A body \in LoanBodies :
          (body.amount <= 0 /\ SubmitLoan(body, TRUE))
             => (response'.code = 400 /\ loans' = loans)]_vars

\* C25: when a decision call has answered success for 'Approved', the
\* balance update it issued has been executed by the store, so that a read
\* of the employee issued after the answer sees the decremented balance.
C25_DecrementBeforeSuccess ==
    \A h \in DOMAIN calls :
        (Approves(calls[h]) /\ calls[h].leave.days >= 1)
            => ~BagIn(Deduction(calls[h].leave), pending)

\* C26: the employee_id of every stored leave request and of every stored
\* loan request is the id of a row of the employees table.
C26_RequestsReferToEmployees ==
    /\ \A i \in DOMAIN leaves : leaves[i].employee_id \in DOMAIN employees
    /\ \A i \in DOMAIN loans : loans[i].employee_id \in DOMAIN employees

\* C22: a step changes leave_annual or leave_casual of an employee only
\* when it is the balance update of an approved leave of that employee, or
\* an update of that employee's row by PUT /api/employees/:id; every other
\* step (submission, rejection, loan decision, attendance, payroll posting,
\* bulk wipe, salary reset, an approval for another employee) leaves both
\* as they are.
BalancesOf(emps, e) == [c \in BalanceColumns |-> emps[e][c]]

C22_BalancesFrame ==
    [][\A e \in DOMAIN employees \cap DOMAIN employees' :
          BalancesOf(employees', e) # BalancesOf(employees, e)
             => \/ \E s \in BagToSet(pending) :
                      s.employee_id = e /\ ExecDeduction(s, TRUE)
                \/ \E body \in AdminEditBodies : UpdateEmployee(e, body)]_vars

\* E1's approved leave has been deducted, a month has been posted and the
\* ledger of every employee wiped or another employee edited: E2's balances
\* are the ones it started with.
C22_Witness ==
    /\ {"E1", "E2"} \subseteq DOMAIN employees
    /\ employees["E1"]["leave_annual"] = InitAnnual - MaxDays
    /\ \E h \in DOMAIN calls : Approves(calls[h]) /\ calls[h].leave.employee_id = "E1"
    /\ pending = EmptyBag
    /\ posted # <<>>
    /\ BalancesOf(employees, "E2") = BalanceDefaults

\* C23: no PUT /api/employees/:id, whatever its body carries, changes the
\* id of a row on file (the ids on file after it are the ids on file before
\* it), and a POST /api/employees with an id on file answers an error and
\* leaves the table as it is.
C23_IdImmutableUnique ==
    [][/\ \A id \in EmpIds \cup NewIds, body \in AdminEditBodies :
             UpdateEmployee(id, body) => DOMAIN employees' = DOMAIN employees
       /\ \A body \in CreateBodies :
             (body.id \in DOMAIN employees /\ CreateEmployee(body, TRUE))
                => (response'.code = 500 /\ employees' = employees)]_vars

\* C24: an employee created by a body that names neither balance has
\* leave_annual = 14 and leave_casual = 10, whether the set-up created the
\* table with its balance columns or added the columns to a table it found.
C24_DefaultBalances ==
    [][\A body \in CreateBodies :
          (/\ ~body.has_annual /\ ~body.has_casual
           /\ CreateEmployee(body, TRUE) /\ response'.code = 200)
             => \A c \in BalanceColumns \cap DOMAIN employees'[body.id] :
                   employees'[body.id][c] = BalanceDefaults[c]]_vars

\* C27: posting a month that is posted leaves the set of posted months as
\* it is and answers success; no month is in the list twice; a month that
\* has been unposted is not in the list, and it comes into the list only by
\* being posted.
Times(rows, m) == Cardinality({i \in DOMAIN rows : rows[i] = m})

C27_PostingIdempotent ==
    [][\A m \in Months :
          /\ (m \in Posted(posted) /\ PayrollPost(m, TRUE))
                => (Posted(posted') = Posted(posted) /\ response'.code = 200)
          /\ Times(posted', m) <= 1
          /\ PayrollUnpost(m, TRUE) => m \notin Posted(posted')
          /\ (m \notin Posted(posted) /\ m \in Posted(posted'))
                => PayrollPost(m, TRUE)]_vars

\* Both months are posted, each once, next to a row without month, and the
\* last request was answered with success.
C27_Witness ==
    /\ Months \subseteq Posted(posted)
    /\ NullMonth \in Posted(posted)
    /\ Len(posted) = MaxPosts
    /\ response.code = 200

\* C28: a salary reset for an id writes 0 into the ten ledger columns of
\* the row with that id and changes no other row and no other column
\* (name, role, email, the leave balances, loan_opening_balance); the bulk
\* wipe does so for every row; a reset for an id that is not on file
\* changes nothing.
LedgerZeroed(rows, e) ==
    /\ DOMAIN employees'[e] = DOMAIN employees[e]
    /\ \A c \in DOMAIN employees[e] :
          employees'[e][c] = IF e \in rows /\ c \in LedgerColumns THEN 0
                             ELSE employees[e][c]

====
